---- MODULE Spec2Model ----
(***************************************************************************)
(* Model of the enhanced task manager core: the safety-tier classifier     *)
(* (core/safety_tiers.py), the termination controller                      *)
(* (core/process_manager.py) and the suppression ledger                    *)
(* (core/suppression_manager.py).                                          *)
(*                                                                         *)
(* Strings that the code concatenates or splits (names, registry values,   *)
(* the detail field) are sequences of tokens; the token "|" is the         *)
(* separator character used by disable_startup_entry.                      *)
(***************************************************************************)
EXTENDS Integers, Sequences, FiniteSets, TLC

VARIABLES
    \* ---- suppression manager (core/suppression_manager.py) ----
    mgr,        \* "none" before construction, "up", or "crashed" (constructor raised)
    entries,    \* SuppressionManager.entries
    file,       \* content of resources/suppressions.json
    svc,        \* start mode of each Windows service
    task,       \* state of each scheduled task
    ifeoKey,    \* executables that have an IFEO registry key
    ifeoDbg,    \* executables whose IFEO key holds a Debugger value
    run,        \* Run keys: run[hive][name] is a value or NoValue
    runDis,     \* Run-Disabled keys, same shape
    disk,       \* condition of the storage holding the ledger file
    admin,      \* whether the tool runs elevated
    clock,      \* datetime.now(), as a counter
    faults,     \* number of environment events so far
    last,       \* the last completed suppression operation and its result
    \* ---- termination controller (core/process_manager.py) ----
    alive,      \* pids of the live processes
    dbFile,     \* which content resources/process_db.json has
    processDb,  \* _process_db, the lazily loaded database
    req,        \* the termination request in progress or just completed
    \* ---- classifier inputs and result (core/safety_tiers.py) ----
    cls,        \* one classify_process call: its inputs and, once made, its result
    \* ---- process table widget (ui/process_table.py, ui/dialogs.py) ----
    ui,         \* the last snapshot, the selected process and the open dialog
    \* ---- a second running instance of the program ----
    peerReq,    \* its termination request in progress or just completed
    peer,       \* its SuppressionManager: constructed or not, and its entries
    \* ---- collect_processes' rate computation and check_respawn ----
    call,       \* one call: its inputs and, once made, its result
    \* ---- the snapshot and the rate samples (core/process_manager.py) ----
    pm          \* _processes, _prev_io, a collection in progress and a reader

suppVars == <<mgr, entries, file, svc, task, ifeoKey, ifeoDbg, run, runDis,
              disk, admin, clock, faults, last>>

killVars == <<alive, dbFile, processDb, req>>

extraVars == <<ui, peerReq, peer, call, pm>>

vars == <<suppVars, killVars, cls, extraVars>>

----------------------------------------------------------------------------
(* Bounds *)

MaxClock == 3       \* the clock's last value: one less apply operation in a run
MaxFaults == 1      \* environment events (object deleted, disk fault) in one run
MaxCycles == 3      \* collect_processes calls in one run

----------------------------------------------------------------------------
(* Strings *)

Bar == "|"
EmptyStr == <<>>
Str(t) == <<t>>

Services == {Str("WorkerSvc")}
Tasks == {Str("TaskX")}
Exes == {Str("w.exe")}
StartupNames == {Str("upd")}
StartupValues == {Str("a.exe"), <<"b", Bar, "c">>}
WorkerName == Str("worker.exe")
Hives == <<"HKCU", "HKLM">>
HiveSet == {"HKCU", "HKLM"}
NoValue == <<"<none>">>

\* str.split("|")
RECURSIVE SplitFrom(_, _, _)
SplitFrom(s, i, cur) ==
    IF i > Len(s) THEN <<cur>>
    ELSE IF s[i] = Bar THEN <<cur>> \o SplitFrom(s, i + 1, <<>>)
    ELSE SplitFrom(s, i + 1, Append(cur, s[i]))

Split(s) == SplitFrom(s, 1, <<>>)

\* "|".join(parts)
RECURSIVE Join(_)
Join(parts) ==
    IF Len(parts) = 0 THEN <<>>
    ELSE IF Len(parts) = 1 THEN parts[1]
    ELSE parts[1] \o <<Bar>> \o Join(Tail(parts))

\* python's `a or b` on strings
OrElse(a, b) == IF a # EmptyStr THEN a ELSE b

----------------------------------------------------------------------------
(* SuppressionEntry and the persisted file *)

SuppressionEntry(pn, ep, m, d, c, a) ==
    [process_name |-> pn, exe_path |-> ep, method |-> m, detail |-> d,
     created |-> c, active |-> a]

EntryKeys == {"process_name", "exe_path", "method", "detail", "created", "active"}

\* the dict _save writes for one entry
ToDict(e) ==
    [process_name |-> e.process_name, exe_path |-> e.exe_path,
     method |-> e.method, detail |-> e.detail, created |-> e.created,
     active |-> e.active]

\* SuppressionEntry(**d) raises TypeError on an unknown key or a missing process_name
WellFormed(d) == DOMAIN d \subseteq EntryKeys /\ "process_name" \in DOMAIN d

\* SuppressionEntry(**d): absent keys take the dataclass defaults
FromDict(d) ==
    SuppressionEntry(
        d.process_name,
        IF "exe_path" \in DOMAIN d THEN d.exe_path ELSE EmptyStr,
        IF "method" \in DOMAIN d THEN d.method ELSE "",
        IF "detail" \in DOMAIN d THEN d.detail ELSE EmptyStr,
        IF "created" \in DOMAIN d THEN d.created ELSE 0,
        IF "active" \in DOMAIN d THEN d.active ELSE TRUE)

MissingFile == [kind |-> "missing", data |-> <<>>]
TextFile == [kind |-> "text", data |-> <<>>]          \* not valid JSON
JsonOther == [kind |-> "json_other", data |-> <<>>]   \* valid JSON, not a list
JsonList(ds) == [kind |-> "json", data |-> ds]

\* _load: the outcome of reading file f
LoadRaises(f) ==
    \/ f.kind = "json_other"
    \/ f.kind = "json" /\ \E i \in 1..Len(f.data) : ~WellFormed(f.data[i])

Load(f) ==
    IF f.kind = "json" /\ ~LoadRaises(f)
    THEN [i \in 1..Len(f.data) |-> FromDict(f.data[i])]
    ELSE <<>>

\* _save: [file after the call, whether it raised]
Save(es, f) ==
    CASE disk = "ok" -> [file |-> JsonList([i \in 1..Len(es) |-> ToDict(es[i])]),
                         raised |-> FALSE]
      [] disk = "ro" -> [file |-> f, raised |-> TRUE]          \* open() raises
      [] OTHER -> [file |-> TextFile, raised |-> TRUE]        \* the write raises

----------------------------------------------------------------------------
(* The suppression operations, as functions of the state they read and     *)
(* write.  st holds the ledger, the file and the backends; every operator   *)
(* returns the state after the call and the success flag it returns.        *)

State == [entries |-> entries, file |-> file, svc |-> svc, task |-> task,
          ifeoKey |-> ifeoKey, ifeoDbg |-> ifeoDbg, run |-> run,
          runDis |-> runDis]

Result(st, ok) == [st |-> st, ok |-> ok]

\* self.entries.append(entry); self._save(); return True -- or the except branch
AppendAndSave(st, entry) ==
    LET es == Append(st.entries, entry)
        sv == Save(es, st.file)
    IN  Result([st EXCEPT !.entries = es, !.file = sv.file], ~sv.raised)

\* self.entries = [e for e in self.entries if not (e.method == m and e.detail == d)]
SelectOthers(es, m, d) == SelectSeq(es, LAMBDA e : ~(e.method = m /\ e.detail = d))

\* the filter above, then self._save(); return True -- or the except branch
FilterAndSave(st, m, d) ==
    LET es == SelectOthers(st.entries, m, d)
        sv == Save(es, st.file)
    IN  Result([st EXCEPT !.entries = es, !.file = sv.file], ~sv.raised)

\* `sc config <name> start= ...` returns 0
ScConfigOk(st, name) == admin /\ name \in DOMAIN st.svc /\ st.svc[name] # "absent"

\* `schtasks /Change /TN <name> ...` returns 0
SchtasksOk(st, name) == admin /\ name \in DOMAIN st.task /\ st.task[name] # "absent"

\* winreg.OpenKey(hive, Run, 0, KEY_ALL_ACCESS) succeeds
OpenRunOk(hive) == hive = "HKCU" \/ admin

disable_service(st, service_name, process_name, now, stopRaises) ==
    IF ~ScConfigOk(st, service_name) THEN Result(st, FALSE)
    ELSE LET st1 == [st EXCEPT !.svc[service_name] = "disabled"]
         IN  IF stopRaises THEN Result(st1, FALSE)
             ELSE AppendAndSave(st1,
                    SuppressionEntry(OrElse(process_name, service_name), EmptyStr,
                                     "service", service_name, now, TRUE))

enable_service(st, service_name) ==
    IF ~ScConfigOk(st, service_name) THEN Result(st, FALSE)
    ELSE FilterAndSave([st EXCEPT !.svc[service_name] = "auto"],
                       "service", service_name)

disable_scheduled_task(st, task_name, process_name, now) ==
    IF ~SchtasksOk(st, task_name) THEN Result(st, FALSE)
    ELSE AppendAndSave([st EXCEPT !.task[task_name] = "disabled"],
            SuppressionEntry(OrElse(process_name, task_name), EmptyStr,
                             "task", task_name, now, TRUE))

enable_scheduled_task(st, task_name) ==
    IF ~SchtasksOk(st, task_name) THEN Result(st, FALSE)
    ELSE FilterAndSave([st EXCEPT !.task[task_name] = "enabled"],
                       "task", task_name)

block_via_ifeo(st, exe_name, process_name, now) ==
    IF ~admin THEN Result(st, FALSE)
    ELSE AppendAndSave([st EXCEPT !.ifeoKey = @ \cup {exe_name},
                                  !.ifeoDbg = @ \cup {exe_name}],
            SuppressionEntry(OrElse(process_name, exe_name), exe_name,
                             "ifeo", exe_name, now, TRUE))

unblock_ifeo(st, exe_name) ==
    IF ~(admin /\ exe_name \in st.ifeoKey) THEN Result(st, FALSE)
    ELSE FilterAndSave([st EXCEPT !.ifeoDbg = @ \ {exe_name}], "ifeo", exe_name)

\* the loop of disable_startup_entry over the two hives, from hive number h
RECURSIVE DisableStartupFrom(_, _, _, _, _)
DisableStartupFrom(st, h, name, process_name, now) ==
    IF h > Len(Hives) THEN Result(st, FALSE)
    ELSE LET hive == Hives[h]
         IN  IF ~OpenRunOk(hive) \/ name \notin DOMAIN st.run[hive]
                \/ st.run[hive][name] = NoValue
             THEN DisableStartupFrom(st, h + 1, name, process_name, now)
             ELSE LET value == st.run[hive][name]
                      st1 == [st EXCEPT !.run[hive][name] = NoValue,
                                        !.runDis[hive][name] = value]
                      r == AppendAndSave(st1,
                              SuppressionEntry(OrElse(process_name, name), EmptyStr,
                                  "startup",
                                  name \o <<Bar>> \o <<"registry">> \o <<Bar>> \o value,
                                  now, TRUE))
                  IN  IF r.ok THEN r
                      ELSE DisableStartupFrom(r.st, h + 1, name, process_name, now)

disable_startup_entry(st, name, location, process_name, now) ==
    IF location # "registry" THEN Result(st, FALSE)
    ELSE DisableStartupFrom(st, 1, name, process_name, now)

\* python's list.pop(index) for 0 <= index; raises IndexError past the end
PopAt(es, index) ==
    [i \in 1..(Len(es) - 1) |-> IF i <= index THEN es[i] ELSE es[i + 1]]

\* the loop of restore_entry's startup branch over the two hives
RECURSIVE RestoreStartupFrom(_, _, _, _, _)
RestoreStartupFrom(st, h, index, name, value) ==
    IF h > Len(Hives) THEN Result(st, FALSE)
    ELSE LET hive == Hives[h]
         IN  IF ~OpenRunOk(hive)
             THEN RestoreStartupFrom(st, h + 1, index, name, value)
             ELSE LET st1 == [st EXCEPT !.run[hive] =
                                  [n \in DOMAIN st.run[hive] \cup {name} |->
                                      IF n = name THEN value ELSE st.run[hive][n]]]
                  IN  IF index >= Len(st1.entries)
                      THEN RestoreStartupFrom(st1, h + 1, index, name, value)
                      ELSE LET es == PopAt(st1.entries, index)
                               sv == Save(es, st1.file)
                               st2 == [st1 EXCEPT !.entries = es, !.file = sv.file]
                           IN  IF sv.raised
                               THEN RestoreStartupFrom(st2, h + 1, index, name, value)
                               ELSE Result(st2, TRUE)

restore_entry(st, index) ==
    IF index < 0 \/ index >= Len(st.entries) THEN Result(st, FALSE)
    ELSE LET entry == st.entries[index + 1]
         IN  CASE entry.method = "service" -> enable_service(st, entry.detail)
               [] entry.method = "task" -> enable_scheduled_task(st, entry.detail)
               [] entry.method = "ifeo" -> unblock_ifeo(st, entry.detail)
               [] entry.method = "startup" ->
                    LET parts == Split(entry.detail)
                    IN  IF Len(parts) >= 3
                        THEN RestoreStartupFrom(st, 1, index, parts[1],
                                                Join(SubSeq(parts, 3, Len(parts))))
                        ELSE Result(st, FALSE)
               [] OTHER -> Result(st, FALSE)

\* the loop of restore_all from index i down to 0; acc collects, per attempt,
\* the entry that was attempted and the flag restore_entry returned
RECURSIVE RestoreAllFrom(_, _, _)
RestoreAllFrom(st, i, acc) ==
    IF i < 0 THEN [st |-> st, raised |-> FALSE, results |-> acc]
    ELSE IF i >= Len(st.entries) THEN [st |-> st, raised |-> TRUE, results |-> acc]
    ELSE IF st.entries[i + 1].active
         THEN LET r == restore_entry(st, i)
              IN  RestoreAllFrom(r.st, i - 1,
                      Append(acc, [entry |-> st.entries[i + 1], ok |-> r.ok]))
         ELSE RestoreAllFrom(st, i - 1, acc)

restore_all(st) == RestoreAllFrom(st, Len(st.entries) - 1, <<>>)

----------------------------------------------------------------------------
(* Initial states of the suppression manager's world *)

OldEntry == SuppressionEntry(Str("old.exe"), EmptyStr, "service", Str("WorkerSvc"), 0, TRUE)

InitFiles ==
    { MissingFile, TextFile, JsonOther,
      JsonList(<<>>),
      JsonList(<<[bogus |-> 1]>>),                      \* a record with an unknown key
      JsonList(<<[process_name |-> Str("old.exe")]>>),  \* optional keys absent
      JsonList(<<ToDict(OldEntry)>>),
      JsonList(<<ToDict([OldEntry EXCEPT !.active = FALSE])>>) }

InitRuns ==
    { [h \in HiveSet |-> [n \in StartupNames |->
          IF h = "HKCU" THEN Str("a.exe") ELSE NoValue]],
      [h \in HiveSet |-> [n \in StartupNames |->
          IF h = "HKLM" THEN <<"b", Bar, "c">> ELSE NoValue]] }

\* last records the operation that produced the current state: its name,
\* arguments and returned flag, whether it raised, restore_all's result list,
\* and (for disable_scheduled_task, the first half of the round trip) the
\* ledger in memory and on disk as they were when it was called; for
\* disable_startup_entry, the Run keys as they were when it was called
NoOp == [op |-> "none", ok |-> TRUE, arg |-> EmptyStr, index |-> 0,
         raised |-> FALSE, results |-> <<>>, pre |-> <<>>, preDisk |-> <<>>,
         preRun |-> <<>>]

EnvOp == [NoOp EXCEPT !.op = "env"]

SuppInit ==
    /\ mgr = "none"
    /\ entries = <<>>
    /\ file \in InitFiles
    /\ svc = [s \in Services |->
                IF s = Str("WorkerSvc") /\ file.kind = "json" /\ Len(file.data) > 0
                   /\ "method" \in DOMAIN file.data[1]
                THEN "disabled" ELSE "auto"]
    /\ task = [t \in Tasks |-> "enabled"]
    /\ ifeoKey = {}
    /\ ifeoDbg = {}
    /\ run \in InitRuns
    /\ runDis = [h \in HiveSet |-> [n \in StartupNames |-> NoValue]]
    /\ disk = "ok"
    /\ admin \in BOOLEAN
    /\ clock = 1
    /\ faults = 0
    /\ last = NoOp

----------------------------------------------------------------------------
(* Actions of the suppression manager *)

\* the state st becomes the current state
Install(st) ==
    /\ entries' = st.entries
    /\ file' = st.file
    /\ svc' = st.svc
    /\ task' = st.task
    /\ ifeoKey' = st.ifeoKey
    /\ ifeoDbg' = st.ifeoDbg
    /\ run' = st.run
    /\ runDis' = st.runDis

Done(op, ok, arg, index, raised, results) ==
    last' = [op |-> op, ok |-> ok, arg |-> arg, index |-> index,
             raised |-> raised, results |-> results,
             pre |-> IF op = "disable_scheduled_task" THEN entries ELSE <<>>,
             preDisk |-> IF op = "disable_scheduled_task" THEN Load(file) ELSE <<>>,
             preRun |-> IF op = "disable_startup_entry" THEN run ELSE <<>>]

\* SuppressionManager(): __init__ calls _load
Construct ==
    /\ mgr \in {"none", "up"}
    /\ mgr' = IF LoadRaises(file) THEN "crashed" ELSE "up"
    /\ entries' = Load(file)
    /\ Done("construct", ~LoadRaises(file), EmptyStr, 0, LoadRaises(file), <<>>)
    /\ UNCHANGED <<file, svc, task, ifeoKey, ifeoDbg, run, runDis, disk, admin,
                   clock, faults>>

CanApply == mgr = "up" /\ clock < MaxClock

Apply(op, arg, r) ==
    /\ Install(r.st)
    /\ Done(op, r.ok, arg, 0, FALSE, <<>>)
    /\ clock' = clock + 1
    /\ UNCHANGED <<mgr, disk, admin, faults>>

DisableService ==
    /\ CanApply
    /\ \E s \in Services, stopRaises \in BOOLEAN :
          Apply("disable_service", s,
                disable_service(State, s, WorkerName, clock, stopRaises))

DisableStartupEntry ==
    /\ CanApply
    /\ \E n \in StartupNames, loc \in {"registry", "folder"} :
          Apply("disable_startup_entry", n,
                disable_startup_entry(State, n, loc, n, clock))

DisableScheduledTask ==
    /\ CanApply
    /\ \E t \in Tasks :
          Apply("disable_scheduled_task", t,
                disable_scheduled_task(State, t, t, clock))

BlockViaIfeo ==
    /\ CanApply
    /\ \E e \in Exes :
          Apply("block_via_ifeo", e, block_via_ifeo(State, e, EmptyStr, clock))

Restore(op, arg, index, r) ==
    /\ mgr = "up"
    /\ Install(r.st)
    /\ Done(op, r.ok, arg, index, FALSE, <<>>)
    /\ UNCHANGED <<mgr, disk, admin, clock, faults>>

EnableService ==
    \E s \in Services : Restore("enable_service", s, 0, enable_service(State, s))

EnableScheduledTask ==
    \E t \in Tasks :
        Restore("enable_scheduled_task", t, 0, enable_scheduled_task(State, t))

UnblockIfeo ==
    \E e \in Exes : Restore("unblock_ifeo", e, 0, unblock_ifeo(State, e))

RestoreEntry ==
    \E index \in -1..Len(entries) :
        Restore("restore_entry", EmptyStr, index, restore_entry(State, index))

RestoreAll ==
    /\ mgr = "up"
    /\ LET r == restore_all(State)
       IN  /\ Install(r.st)
           /\ Done("restore_all", ~r.raised, EmptyStr, 0, r.raised, r.results)
    /\ UNCHANGED <<mgr, disk, admin, clock, faults>>

----------------------------------------------------------------------------
(* The environment: a suppressed object (disabled service, disabled task,  *)
(* IFEO key) is deleted behind the tool's back; the disk fails and recovers *)

EnvDelete ==
    /\ faults < MaxFaults
    /\ faults' = faults + 1
    /\ \/ \E s \in Services : /\ svc[s] = "disabled"
                              /\ svc' = [svc EXCEPT ![s] = "absent"]
                              /\ UNCHANGED <<task, ifeoKey, ifeoDbg>>
       \/ \E t \in Tasks : /\ task[t] = "disabled"
                           /\ task' = [task EXCEPT ![t] = "absent"]
                           /\ UNCHANGED <<svc, ifeoKey, ifeoDbg>>
       \/ \E e \in ifeoKey : /\ ifeoKey' = ifeoKey \ {e}
                             /\ ifeoDbg' = ifeoDbg \ {e}
                             /\ UNCHANGED <<svc, task>>
       \* only the Debugger value is removed, the key stays
       \/ \E e \in ifeoDbg : /\ ifeoDbg' = ifeoDbg \ {e}
                             /\ UNCHANGED <<svc, task, ifeoKey>>
    /\ last' = EnvOp
    /\ UNCHANGED <<mgr, entries, file, run, runDis, disk, admin, clock>>

DiskChange ==
    /\ faults < MaxFaults
    /\ faults' = faults + 1
    /\ \E d \in {"ok", "ro", "ioerr"} : d # disk /\ disk' = d
    /\ last' = EnvOp
    /\ UNCHANGED <<mgr, entries, file, svc, task, ifeoKey, ifeoDbg, run, runDis,
                   admin, clock>>

----------------------------------------------------------------------------
(* The safety-tier classifier (core/safety_tiers.py) *)

GREEN == "green"
YELLOW == "yellow"
RED == "red"

\* a SafetyInfo that always permits termination
SafetyInfo_AlwaysKillable(tier, label, warning, can_kill) ==
    [tier |-> tier, label |-> label, warning |-> warning, can_kill |-> TRUE]

SafetyInfo(tier, label, warning, can_kill) ==
    [tier |-> tier, label |-> label, warning |-> warning, can_kill |-> can_kill]

\* a category table that files windows_service under GREEN
CategoryTier_ServiceGreen(category) ==
    CASE category = "system_critical" -> RED
      [] OTHER -> GREEN

\* _CATEGORY_TIERS.get(category, SafetyTier.GREEN)
CategoryTier(category) ==
    CASE category = "system_critical" -> RED
      [] category = "windows_service" -> YELLOW
      [] category \in {"user_app", "background_app", "startup_item", "unknown"} -> GREEN
      [] OTHER -> GREEN

_ALWAYS_CRITICAL ==
    {"system", "smss.exe", "csrss.exe", "wininit.exe", "winlogon.exe",
     "services.exe", "lsass.exe", "lsaiso.exe", "dwm.exe", "ntoskrnl.exe",
     "registry.exe", "memory_compression", "trustedinstaller.exe",
     "fontdrvhost.exe"}

_CAUTION_OVERRIDES ==
    {"explorer.exe", "spoolsv.exe", "searchindexer.exe", "audiodg.exe",
     "msmpeng.exe", "securityhealthservice.exe", "wlanext.exe",
     "nissrv.exe", "wudfhost.exe"}

\* a pid set that leaves out the System process
SystemPids_IdleOnly == {0}

\* `pid in (0, 4)`: System Idle Process and System
SystemPids == {0, 4}

\* process names as the operating system reports them
Names == {"", "System", "Csrss.exe", "csrss.exe", "Explorer.EXE", "spoolsv.exe",
          "worker.exe", "Worker.exe", "helper.exe", "conhost.exe"}

\* str.lower()
Lower(n) ==
    CASE n = "System" -> "system"
      [] n = "Csrss.exe" -> "csrss.exe"
      [] n = "Explorer.EXE" -> "explorer.exe"
      [] n = "Worker.exe" -> "worker.exe"
      [] OTHER -> n

DbNames == {Lower(n) : n \in Names}

\* One value of the process database.  A key the JSON object does not have
\* is Absent; other says whether the object has keys besides the three the
\* classifier reads (description, ...).  None is a name without an object.
Absent == "<absent>"
Info(category, safe, warning, other) ==
    [exists |-> TRUE, category |-> category, safe_to_kill |-> safe,
     kill_warning |-> warning, other |-> other]
None == [exists |-> FALSE, category |-> Absent, safe_to_kill |-> Absent,
         kill_warning |-> Absent, other |-> FALSE]

\* python's truth value of `info`: None and the empty dict are false
Truthy(info) ==
    /\ info.exists
    /\ \/ info.category # Absent
       \/ info.safe_to_kill # Absent
       \/ info.kill_warning # Absent
       \/ info.other

\* dict.get(key, default)
Get(info, key, default) == IF info[key] = Absent THEN default ELSE info[key]

\* get_process_info, on the loaded database db
get_process_info(name, db) ==
    IF Lower(name) \in DOMAIN db THEN db[Lower(name)] ELSE None

CriticalWarning == "System critical process. Terminating may crash Windows."
CautionWarning == "This service may affect system functionality."

\* python's `warning or default` on strings
OrDefault(w, d) == IF w # "" THEN w ELSE d

classify_process(proc_name, pid, db) ==
    LET name_lower == Lower(proc_name)
        info == get_process_info(name_lower, db)
        category == Get(info, "category", "unknown")
        safe == Get(info, "safe_to_kill", "True") = "True"
        warning == Get(info, "kill_warning", "")
    IN  IF pid \in SystemPids
        THEN SafetyInfo(RED, "System Critical",
                 "Core operating system process. Cannot be terminated.", FALSE)
        ELSE IF name_lower \in _ALWAYS_CRITICAL
        THEN SafetyInfo(RED, "System Critical",
                 IF Truthy(info) THEN Get(info, "kill_warning", CriticalWarning)
                 ELSE CriticalWarning, FALSE)
        ELSE IF name_lower \in _CAUTION_OVERRIDES
        THEN SafetyInfo(YELLOW, "Caution",
                 IF Truthy(info) THEN Get(info, "kill_warning", CautionWarning)
                 ELSE CautionWarning, TRUE)
        ELSE IF Truthy(info)
        THEN IF ~safe /\ category = "system_critical"
             THEN SafetyInfo(RED, "System Critical",
                      OrDefault(warning, "System critical process."), FALSE)
             ELSE IF ~safe
             THEN SafetyInfo(YELLOW, "Caution",
                      OrDefault(warning,
                          "This process provides important functionality."), TRUE)
             ELSE IF CategoryTier(category) = YELLOW
             THEN SafetyInfo(YELLOW, "Caution",
                      OrDefault(warning,
                          "Windows service - may affect functionality."), TRUE)
             ELSE SafetyInfo(GREEN, "Safe", "", TRUE)
        ELSE SafetyInfo(GREEN, "Safe", "", TRUE)

\* whether classify_process(proc_name, pid) reaches a get_process_info call
ReadsDb(pid) == pid \notin SystemPids

(* One classification, inputs drawn at Init *)

Categories == {Absent, "system_critical", "windows_service", "user_app", "game"}
Infos ==
    {None} \cup
    {Info(c, sf, w, o) : c \in Categories, sf \in {Absent, "True", "False"},
                         w \in {Absent, "", "Stops the worker."}, o \in BOOLEAN}
ClsPids == {0, 4, 7}

ClsIdle == cls = [name |-> "", pid |-> 0, info |-> None, done |-> FALSE,
                  out |-> SafetyInfo(GREEN, "", "", TRUE)]

ClsInit ==
    \E n \in Names, p \in ClsPids, i \in Infos :
        cls = [name |-> n, pid |-> p, info |-> i, done |-> FALSE,
               out |-> SafetyInfo(GREEN, "", "", TRUE)]

\* classify_process(name, pid) with the database holding info under the name
Classify ==
    /\ ~cls.done
    /\ cls' = [cls EXCEPT
                 !.done = TRUE,
                 !.out = classify_process(cls.name, cls.pid,
                            [n \in {Lower(cls.name)} |-> cls.info])]

----------------------------------------------------------------------------
(* The termination controller (core/process_manager.py) *)

\* the process table: pid 4 is the kernel's System process; 10 has the child
\* 11; 20 has the child 21, which has the child 22; 99 is no process
Pids == {4, 10, 11, 20, 21, 22}
NoPid == 99
ProcName == [p \in Pids |->
    CASE p = 4 -> "System"
      [] p = 10 -> "Csrss.exe"
      [] p = 11 -> "conhost.exe"
      [] p = 20 -> "Worker.exe"
      [] p = 21 -> "helper.exe"
      [] OTHER -> "helper.exe"]
Parent == [p \in Pids |->
    CASE p = 11 -> 10
      [] p = 21 -> 20
      [] p = 22 -> 21
      [] OTHER -> 0]

\* the contents resources/process_db.json may have
DbFiles == {"missing", "plain", "strict"}
DbContent(f) ==
    [n \in DbNames |->
        CASE f = "plain" /\ n = "worker.exe" -> Info("user_app", "True", Absent, TRUE)
          [] f = "plain" /\ n = "csrss.exe" -> Info("user_app", "True", Absent, TRUE)
          [] f = "strict" /\ n = "worker.exe" ->
                Info("system_critical", "False", "Stops the worker.", TRUE)
          [] f = "strict" /\ n = "helper.exe" -> Info("windows_service", Absent, "", TRUE)
          [] OTHER -> None]

EmptyDb == [n \in DbNames |-> None]

\* a lookup that drops a loaded database instead of keeping it
LoadedDb_Drop(db, f) == IF \A n \in DbNames : ~db[n].exists THEN DbContent(f) ELSE EmptyDb

\* get_process_info's `if not _process_db: load_database()`
LoadedDb(db, f) == IF \A n \in DbNames : ~db[n].exists THEN DbContent(f) ELSE db

\* Process.children(recursive=True): the live descendants of pid
RECURSIVE DescendantsOf(_, _, _)
DescendantsOf(roots, live, n) ==
    IF n = 0 THEN {}
    ELSE LET kids == {c \in live : Parent[c] \in roots}
         IN  kids \cup DescendantsOf(kids, live, n - 1)

Children(pid, live) == DescendantsOf({pid}, live, Cardinality(Pids))

\* a set of pids as a list, in increasing pid order
RECURSIVE AsList(_)
AsList(S) ==
    IF S = {} THEN <<>>
    ELSE LET m == CHOOSE x \in S : \A y \in S : x <= y
         IN  <<m>> \o AsList(S \ {m})

IdleReq == [kind |-> "none", pid |-> 0, force |-> FALSE, pc |-> "idle",
            name |-> "", tier |-> "none", children |-> <<>>, todo |-> <<>>,
            tried |-> <<>>, sigs |-> <<>>, result |-> FALSE, gone |-> FALSE]

KillInit ==
    /\ alive = Pids
    /\ dbFile \in DbFiles
    /\ processDb = EmptyDb
    /\ req = IdleReq

KillIdle ==
    /\ alive = Pids
    /\ dbFile = "missing"
    /\ processDb = EmptyDb
    /\ req = IdleReq

Sig(kind, pid) == [sig |-> kind, pid |-> pid]

\* the request calls terminate() or kill() on a process: tried lists the calls
\* made, sigs the ones the process received (no exception raised)
Try(r, kind, pid) == [r EXCEPT !.tried = Append(@, Sig(kind, pid))]

\* the request returns (ok, message); gone records whether the target was
\* still a live process at that moment
Return(r, ok) == [r EXCEPT !.pc = "done", !.result = ok, !.gone = r.pid \notin alive]

\* a NoSuchProcess handler that reports failure
OnNoSuchProcess_Failure == FALSE

\* `except psutil.NoSuchProcess: return True, ...`
OnNoSuchProcess == TRUE

\* `except psutil.AccessDenied: return False, ...`
OnAccessDenied == FALSE

\* `if safety.tier == SafetyTier.RED and not force` of kill_process
KillGate(safety, force) == safety.tier = RED /\ ~force

\* a tree gate that trusts can_kill instead of the tier
TreeGate_CanKill(safety) == safety.tier = RED /\ safety.can_kill

\* `if safety.tier == SafetyTier.RED` of kill_process_tree
TreeGate(safety) == safety.tier = RED

\* kill_process(pid, force), up to the gate: psutil.Process(pid), proc.name(),
\* classify_process(name, pid) and the RED check
KillRequest ==
    /\ req.pc \in {"idle", "done"}
    /\ \E pid \in Pids \cup {NoPid}, force \in BOOLEAN, denied \in BOOLEAN :
        LET r0 == [IdleReq EXCEPT !.kind = "kill", !.pid = pid, !.force = force]
        IN  IF pid \notin alive
            THEN /\ ~denied
                 /\ req' = Return(r0, OnNoSuchProcess)
                 /\ UNCHANGED processDb
            ELSE IF denied
            THEN /\ req' = Return(r0, OnAccessDenied)
                 /\ UNCHANGED processDb
            ELSE LET db == IF ReadsDb(pid) THEN LoadedDb(processDb, dbFile)
                           ELSE processDb
                     safety == classify_process(ProcName[pid], pid, db)
                     r1 == [r0 EXCEPT !.name = ProcName[pid], !.tier = safety.tier]
                 IN  /\ processDb' = db
                     /\ req' = IF KillGate(safety, force) THEN Return(r1, FALSE)
                               ELSE [r1 EXCEPT !.pc = "signal"]
    /\ UNCHANGED <<alive, dbFile>>

\* a signal step that answers a refused terminate with the forceful kill
KillSignal_Escalate ==
    /\ req.kind = "kill" /\ req.pc = "signal"
    /\ \E denied \in BOOLEAN :
        LET r == Try(req, IF req.force THEN "kill" ELSE "terminate", req.pid)
        IN  IF req.pid \notin alive
            THEN /\ ~denied
                 /\ req' = Return(r, OnNoSuchProcess)
            ELSE IF denied
            THEN req' = IF req.force THEN Return(r, OnAccessDenied)
                        ELSE [r EXCEPT !.pc = "escalate"]
            ELSE IF req.force
            THEN req' = Return([r EXCEPT !.sigs = Append(@, Sig("kill", req.pid))], TRUE)
            ELSE req' = [r EXCEPT !.sigs = Append(@, Sig("terminate", req.pid)),
                                  !.pc = "wait"]
    /\ UNCHANGED <<alive, dbFile, processDb>>

\* `if force: proc.kill() else: proc.terminate()`
KillSignal ==
    /\ req.kind = "kill" /\ req.pc = "signal"
    /\ \E denied \in BOOLEAN :
        LET r == Try(req, IF req.force THEN "kill" ELSE "terminate", req.pid)
        IN  IF req.pid \notin alive
            THEN /\ ~denied
                 /\ req' = Return(r, OnNoSuchProcess)
            ELSE IF denied
            THEN req' = Return(r, OnAccessDenied)
            ELSE IF req.force
            THEN req' = Return([r EXCEPT !.sigs = Append(@, Sig("kill", req.pid))], TRUE)
            ELSE req' = [r EXCEPT !.sigs = Append(@, Sig("terminate", req.pid)),
                                  !.pc = "wait"]
    /\ UNCHANGED <<alive, dbFile, processDb>>

\* proc.wait(timeout=3): returns when the process has exited, else TimeoutExpired
KillWait ==
    /\ req.kind = "kill" /\ req.pc = "wait"
    /\ req' = IF req.pid \notin alive THEN Return(req, TRUE)
              ELSE [req EXCEPT !.pc = "escalate"]
    /\ UNCHANGED <<alive, dbFile, processDb>>

\* an escalation that goes back to waiting after its kill, and so kills again
KillEscalate_Retry ==
    /\ req.kind = "kill" /\ req.pc = "escalate"
    /\ req' = [Try(req, "kill", req.pid) EXCEPT
                  !.sigs = Append(@, Sig("kill", req.pid)), !.pc = "wait"]
    /\ UNCHANGED <<alive, dbFile, processDb>>

\* `except psutil.TimeoutExpired: proc.kill()`
KillEscalate ==
    /\ req.kind = "kill" /\ req.pc = "escalate"
    /\ \E denied \in BOOLEAN :
        LET r == Try(req, "kill", req.pid)
        IN  IF req.pid \notin alive
            THEN /\ ~denied
                 /\ req' = Return(r, OnNoSuchProcess)
            ELSE IF denied
            THEN req' = Return(r, OnAccessDenied)
            ELSE req' = Return([r EXCEPT !.sigs = Append(@, Sig("kill", req.pid))], TRUE)
    /\ UNCHANGED <<alive, dbFile, processDb>>

\* kill_process_tree(pid), up to the gate: psutil.Process(pid), parent.name(),
\* parent.children(recursive=True), classify_process and the RED check
TreeRequest ==
    /\ req.pc \in {"idle", "done"}
    /\ \E pid \in Pids \cup {NoPid}, denied \in BOOLEAN :
        LET r0 == [IdleReq EXCEPT !.kind = "tree", !.pid = pid]
        IN  IF pid \notin alive
            THEN /\ ~denied
                 /\ req' = Return(r0, OnNoSuchProcess)
                 /\ UNCHANGED processDb
            ELSE IF denied
            THEN /\ req' = Return(r0, OnAccessDenied)
                 /\ UNCHANGED processDb
            ELSE LET db == IF ReadsDb(pid) THEN LoadedDb(processDb, dbFile)
                           ELSE processDb
                     safety == classify_process(ProcName[pid], pid, db)
                     children == AsList(Children(pid, alive))
                     r1 == [r0 EXCEPT !.name = ProcName[pid], !.tier = safety.tier,
                                      !.children = children, !.todo = children]
                 IN  /\ processDb' = db
                     /\ req' = IF TreeGate(safety) THEN Return(r1, FALSE)
                               ELSE [r1 EXCEPT !.pc = IF children = <<>> THEN "root"
                                                      ELSE "children"]
    /\ UNCHANGED <<alive, dbFile>>

\* a loop over the children without the inner try: a refused terminate ends
\* the request in the AccessDenied handler
TreeChild_Abort ==
    /\ req.kind = "tree" /\ req.pc = "children"
    /\ \E denied \in BOOLEAN :
        LET child == Head(req.todo)
            sent == child \in alive /\ ~denied
            r == Try(req, "terminate", child)
        IN  /\ (child \notin alive => ~denied)
            /\ req' = IF denied THEN Return(r, OnAccessDenied)
                      ELSE [r EXCEPT
                              !.sigs = IF sent THEN Append(@, Sig("terminate", child))
                                       ELSE @,
                              !.todo = Tail(@),
                              !.pc = IF Len(req.todo) = 1 THEN "root" ELSE "children"]
    /\ UNCHANGED <<alive, dbFile, processDb>>

\* one iteration of `for child in children: child.terminate()`, NoSuchProcess
\* and AccessDenied swallowed
TreeChild ==
    /\ req.kind = "tree" /\ req.pc = "children"
    /\ \E denied \in BOOLEAN :
        LET child == Head(req.todo)
            sent == child \in alive /\ ~denied
        IN  /\ (child \notin alive => ~denied)
            /\ req' = [Try(req, "terminate", child) EXCEPT
                        !.sigs = IF sent THEN Append(@, Sig("terminate", child)) ELSE @,
                        !.todo = Tail(@),
                        !.pc = IF Len(req.todo) = 1 THEN "root" ELSE "children"]
    /\ UNCHANGED <<alive, dbFile, processDb>>

\* parent.terminate()
TreeRoot ==
    /\ req.kind = "tree" /\ req.pc = "root"
    /\ \E denied \in BOOLEAN :
        LET r == Try(req, "terminate", req.pid)
        IN  IF req.pid \notin alive
            THEN /\ ~denied
                 /\ req' = Return(r, OnNoSuchProcess)
            ELSE IF denied
            THEN req' = Return(r, OnAccessDenied)
            ELSE req' = [r EXCEPT !.sigs = Append(@, Sig("terminate", req.pid)),
                                  !.pc = "wait"]
    /\ UNCHANGED <<alive, dbFile, processDb>>

\* gone, alive = psutil.wait_procs(children + [parent], timeout=3)
TreeWait ==
    /\ req.kind = "tree" /\ req.pc = "wait"
    /\ LET procs == {req.children[i] : i \in 1..Len(req.children)} \cup {req.pid}
           survivors == AsList(procs \cap alive)
       IN  req' = IF survivors = <<>> THEN Return(req, TRUE)
                  ELSE [req EXCEPT !.todo = survivors, !.pc = "escalate"]
    /\ UNCHANGED <<alive, dbFile, processDb>>

\* one iteration of `for p in alive: p.kill()`, NoSuchProcess and AccessDenied
\* swallowed; after the last one the request returns True
TreeEscalate ==
    /\ req.kind = "tree" /\ req.pc = "escalate"
    /\ \E denied \in BOOLEAN :
        LET p == Head(req.todo)
            sent == p \in alive /\ ~denied
            r1 == [Try(req, "kill", p) EXCEPT
                     !.sigs = IF sent THEN Append(@, Sig("kill", p)) ELSE @,
                     !.todo = Tail(@)]
        IN  /\ (p \notin alive => ~denied)
            /\ req' = IF Len(req.todo) = 1 THEN Return(r1, TRUE) ELSE r1
    /\ UNCHANGED <<alive, dbFile, processDb>>

\* a process exits, by itself or in response to a signal; the kernel's System
\* process does not
ProcExit ==
    /\ \E p \in alive \ {4} : alive' = alive \ {p}
    /\ UNCHANGED <<dbFile, processDb, req>>

----------------------------------------------------------------------------
(* Disk rates of collect_processes and the respawn scan                     *)
(* (core/process_manager.py)                                                *)

\* a rate in bytes per second, as the exact quotient num / den
Rate(num, den) == [num |-> num, den |-> den]
ZeroRate == Rate(0, 1)

\* a max that keeps negative quotients
Max0_Identity(q) == q

\* max(0, q)
Max0(q) == IF q.num * q.den > 0 THEN q ELSE ZeroRate

\* absent values: self._prev_io.get(pid) and pinfo.get('io_counters') are None
NoSample == [exists |-> FALSE, read_bytes |-> 0, write_bytes |-> 0, time |-> 0]
NoCounters == [exists |-> FALSE, read_bytes |-> 0, write_bytes |-> 0]
Sample(r, w, t) == [exists |-> TRUE, read_bytes |-> r, write_bytes |-> w, time |-> t]
IoCounters(r, w) == [exists |-> TRUE, read_bytes |-> r, write_bytes |-> w]

\* the `# Disk I/O with rate calculation` block for one process: the two
\* speeds of its ProcessInfo and the entry of _prev_io afterwards
disk_rates(io, prev, now) ==
    LET dt == now - prev.time
        computed == io.exists /\ prev.exists /\ dt > 0
    IN  [disk_read_speed |->
            IF computed THEN Max0(Rate(io.read_bytes - prev.read_bytes, dt))
            ELSE ZeroRate,
         disk_write_speed |->
            IF computed THEN Max0(Rate(io.write_bytes - prev.write_bytes, dt))
            ELSE ZeroRate,
         prev_io |->
            IF io.exists THEN Sample(io.read_bytes, io.write_bytes, now) ELSE prev]

\* a name psutil could not read
NoName == "<none>"

\* a match that does not look at the pid
Matches_AnyPid(p, name, original_pid) ==
    /\ p.name \notin {NoName, ""}
    /\ Lower(p.name) = Lower(name)

\* the condition of check_respawn's loop body on one scanned process
Matches(p, name, original_pid) ==
    /\ p.name \notin {NoName, ""}
    /\ Lower(p.name) = Lower(name)
    /\ p.pid # original_pid

NotFound == [found |-> FALSE, pid |-> 0]
Found(pid) == [found |-> TRUE, pid |-> pid]

\* the loop of check_respawn over the scan, from position i
RECURSIVE RespawnFrom(_, _, _, _)
RespawnFrom(scan, i, name, original_pid) ==
    IF i > Len(scan) THEN NotFound
    ELSE IF Matches(scan[i], name, original_pid) THEN Found(scan[i].pid)
    ELSE RespawnFrom(scan, i + 1, name, original_pid)

\* check_respawn(name, original_pid) on what psutil.process_iter yields after
\* the delay
check_respawn(name, original_pid, scan) == RespawnFrom(scan, 1, name, original_pid)

(* One call, inputs drawn at Init *)

Counters == {100, 150, 200, 250}
Times == {0, 5, 8}
Samples == {NoSample} \cup {Sample(r, w, t) : r \in Counters, w \in Counters, t \in Times}
IoValues == {NoCounters} \cup {IoCounters(r, w) : r \in {100, 150}, w \in {200, 250}}

\* the processes a scan may find: pid 20 is the terminated Worker.exe
ScanPids == {20, 30, 31, 32}
ScanNames == {"Worker.exe", "worker.exe", "helper.exe", NoName}
Scans ==
    UNION {{[i \in 1..Cardinality(S) |-> [pid |-> AsList(S)[i], name |-> nm[AsList(S)[i]]]] :
               nm \in [S -> ScanNames]} : S \in SUBSET ScanPids}

NoCall == [fn |-> "none", done |-> FALSE]

CallIdle == call = NoCall

CallInit ==
    \/ \E io \in IoValues, prev \in Samples, now \in Times :
          call = [fn |-> "disk_rates", io |-> io, prev |-> prev, now |-> now,
                  done |-> FALSE, out |-> disk_rates(NoCounters, NoSample, 0)]
    \/ \E name \in {"Worker.exe", "worker.exe"}, pid \in {20, 30}, scan \in Scans :
          call = [fn |-> "check_respawn", name |-> name, original_pid |-> pid,
                  scan |-> scan, done |-> FALSE, out |-> NotFound]

CollectRates ==
    /\ call.fn = "disk_rates" /\ ~call.done
    /\ call' = [call EXCEPT !.done = TRUE,
                             !.out = disk_rates(call.io, call.prev, call.now)]

CheckRespawn ==
    /\ call.fn = "check_respawn" /\ ~call.done
    /\ call' = [call EXCEPT !.done = TRUE,
                             !.out = check_respawn(call.name, call.original_pid,
                                                   call.scan)]

----------------------------------------------------------------------------
(* The snapshot cycle of collect_processes and its readers                  *)
(* (core/process_manager.py).  collect_processes runs on the refresh worker *)
(* thread, one call at a time; get_processes and get_process_by_pid are      *)
(* called from the UI thread.  Dictionaries are objects: pm.heap holds their *)
(* contents, and _processes, new_processes and the reader's result refer to  *)
(* them.                                                                     *)

PmPids == {30, 31}
NoDict == 0
DictIds == 1..3
EmptyDict == <<>>
NoRecord == [cycle |-> 0, disk_read_speed |-> ZeroRate]
NoPrevIo == [p \in PmPids |-> NoSample]

\* read_bytes of a process at time now: I/O goes on at a steady pace
ReadBytes(now) == 100 * now

\* d[pid] = rec
Put(d, pid, rec) == [p \in (DOMAIN d) \cup {pid} |-> IF p = pid THEN rec ELSE d[p]]

\* the dictionaries something refers to
Refs(m) == {m.processes, m.new, m.reader.ref} \ {NoDict}

\* a dictionary nothing refers to any more is reclaimed
Collected(m) ==
    [m EXCEPT !.heap = [i \in DictIds |-> IF i \in Refs(m) THEN m.heap[i]
                                          ELSE EmptyDict]]

\* a new dictionary object
NewDict(m) == CHOOSE i \in DictIds \ Refs(m) : \A j \in DictIds \ Refs(m) : i <= j

\* what the UI thread last read: the dictionary object get_processes gave it
\* (ref) or the pid it asked get_process_by_pid for, the value it got, the
\* last complete snapshot at that moment (expect), and whether a collection
\* had records in its new dictionary just then (during)
NoRead == [ref |-> NoDict, pid |-> 0, got |-> EmptyDict, expect |-> EmptyDict,
           during |-> FALSE]

\* a collection is under way and has stored records
Collecting(m) == m.pc = "scan" /\ m.heap[m.new] # EmptyDict

\* dict.get(pid)
GetOr(d, pid) == IF pid \in DOMAIN d THEN d[pid] ELSE NoRecord

PmStart ==
    [live |-> PmPids, now |-> 0, pc |-> "idle", todo |-> <<>>,
     heap |-> [i \in DictIds |-> EmptyDict], processes |-> 1, new |-> NoDict,
     prev_io |-> NoPrevIo,
     reader |-> NoRead, returned |-> EmptyDict, dropped |-> {}]

PmIdle == pm = PmStart

PmInit == pm = PmStart

\* `now = time.time(); new_processes = {}` and the start of
\* psutil.process_iter, which lists the pids once
CollectStart ==
    /\ pm.pc = "idle" /\ pm.now < MaxCycles
    /\ LET id == NewDict(pm)
       IN  pm' = [pm EXCEPT !.pc = "scan", !.now = @ + 1, !.new = id,
                            !.heap[id] = EmptyDict, !.todo = AsList(pm.live)]

\* one iteration of the loop: a process that has exited or has no name is
\* skipped; for the others the disk rate is computed from _prev_io, the
\* sample is stored and the record goes into the dictionary `target`
CollectRecordInto(target) ==
    /\ pm.pc = "scan" /\ pm.todo # <<>>
    /\ \E skipped, counters \in BOOLEAN :
        LET pid == Head(pm.todo)
            io == IF counters THEN IoCounters(ReadBytes(pm.now), 0) ELSE NoCounters
            rates == disk_rates(io, pm.prev_io[pid], pm.now)
            pi == [cycle |-> pm.now, disk_read_speed |-> rates.disk_read_speed]
        IN  /\ (pid \notin pm.live => skipped)
            /\ (skipped => ~counters)
            /\ pm' = IF skipped THEN [pm EXCEPT !.todo = Tail(@)]
                      ELSE [pm EXCEPT !.todo = Tail(@),
                                      !.prev_io[pid] = rates.prev_io,
                                      !.heap[target] = Put(@, pid, pi)]

\* a loop that stores each record into self._processes as it goes
CollectRecord_InPlace == CollectRecordInto(pm.processes)

\* `new_processes[pid] = pi`: the records go into the local dictionary
CollectRecord == CollectRecordInto(pm.new)

\* a cleanup that removes nothing
Stale_Nothing(prev_io, new_processes) == {}

\* `stale = set(self._prev_io.keys()) - active_pids`
Stale(prev_io, new_processes) ==
    {p \in PmPids : prev_io[p].exists} \ DOMAIN new_processes

\* the end of collect_processes: the stale samples are deleted, then
\* `with self._lock: self._processes = new_processes` and the return
CollectFinish ==
    /\ pm.pc = "scan" /\ pm.todo = <<>>
    /\ LET new_processes == pm.heap[pm.new]
           stale == Stale(pm.prev_io, new_processes)
       IN  pm' = Collected([pm EXCEPT
                    !.pc = "idle",
                    !.prev_io = [p \in PmPids |-> IF p \in stale THEN NoSample ELSE @[p]],
                    !.processes = pm.new,
                    !.new = NoDict,
                    !.returned = new_processes,
                    !.dropped = @ \cup stale])

\* get_processes: `with self._lock: return dict(self._processes)`
GetProcesses ==
    /\ LET m == Collected([pm EXCEPT !.reader = NoRead])
           id == NewDict(m)
           copy == m.heap[m.processes]
       IN  pm' = [m EXCEPT !.heap[id] = copy,
                           !.reader = [ref |-> id, pid |-> 0, got |-> copy,
                                       expect |-> pm.returned,
                                       during |-> Collecting(pm)]]

\* get_process_by_pid: `with self._lock: return self._processes.get(pid)`
GetProcessByPid ==
    /\ \E pid \in PmPids :
        LET m == Collected([pm EXCEPT !.reader = NoRead])
        IN  pm' = [m EXCEPT !.reader =
                      [ref |-> NoDict, pid |-> pid,
                       got |-> GetOr(pm.heap[pm.processes], pid),
                       expect |-> GetOr(pm.returned, pid),
                       during |-> Collecting(pm)]]

\* a process exits, or one starts under a pid that is free
PmProcChange ==
    /\ \E p \in PmPids :
          pm' = [pm EXCEPT !.live = IF p \in @ THEN @ \ {p} ELSE @ \cup {p}]

----------------------------------------------------------------------------
(* Idle values of the parts a specification leaves out *)

NoSafety == SafetyInfo("none", "", "", FALSE)

\* no RespawnCheckWorker started
NoWatch == [name |-> "", pid |-> 0, running |-> FALSE]

UiIdle == ui = [pc |-> "idle", pid |-> 0, safety |-> NoSafety, override |-> FALSE,
                last |-> "none", snapshot |-> <<>>, watch |-> NoWatch]

PeerIdle ==
    /\ peerReq = IdleReq
    /\ peer = [mgr |-> "none", entries |-> <<>>]

ExtraIdle == UiIdle /\ PeerIdle /\ CallIdle /\ PmIdle

----------------------------------------------------------------------------
(* The process table widget (ui/process_table.py) and the confirmation      *)
(* dialog (ui/dialogs.py).  Its handlers run on the one UI thread, so none   *)
(* starts while kill_process is executing.                                    *)

UiThreadFree == req.pc \in {"idle", "done"}

\* self.pm.kill_process(pid, force=force): the call enters kill_process
KillCall(pid, force) ==
    /\ KillRequest
    /\ req'.kind = "kill" /\ req'.pid = pid /\ req'.force = force

\* self.pm.kill_process_tree(pid): the call enters kill_process_tree
TreeCall(pid) ==
    /\ TreeRequest
    /\ req'.kind = "tree" /\ req'.pid = pid

\* whether the handler goes on to `if ok: self._check_respawn(pi.name, pi.pid)`
\* after its termination call: _on_end_task (both branches) and _on_end_tree
\* do, _on_respawn_detected only emits the status message
ChecksRespawn(handler) == handler \in {"direct", "accept", "force", "tree"}

\* the rest of a handler once its termination call r has returned:
\* _check_respawn starts a RespawnCheckWorker for the selected process.  The
\* model follows the worker of the latest request only.
AfterCall(u, r) ==
    IF r.pc = "done" /\ r.result /\ ChecksRespawn(u.last)
    THEN [u EXCEPT !.watch = [name |-> ProcName[u.pid], pid |-> u.pid,
                              running |-> TRUE]]
    ELSE u

\* a step of kill_process or kill_process_tree inside a handler; when it
\* returns, the handler finishes
HandlerStep == ui' = AfterCall(ui, req')

\* a force flag set for every process that is not GREEN
ForceFor_NotGreen(safety) == safety.tier # GREEN

\* `force = safety.tier == SafetyTier.RED`
ForceFor(safety) == safety.tier = RED

\* collect_processes on the worker thread, then _on_data_ready: every live
\* process gets pi.safety_info = classify_process(name, pid)
Refresh ==
    /\ UiThreadFree
    /\ LET reads == \E p \in alive : ReadsDb(p)
           db == IF reads THEN LoadedDb(processDb, dbFile) ELSE processDb
           snap == [p \in alive |-> classify_process(ProcName[p], p, db)]
       IN  /\ snap # ui.snapshot
           /\ ui' = [ui EXCEPT !.snapshot = snap]
           /\ processDb' = db
    /\ UNCHANGED <<alive, dbFile, req>>

\* _on_end_task up to the direct kill_process call (GREEN) or dlg.exec()
OnEndTask ==
    /\ UiThreadFree /\ ui.pc = "idle"
    /\ \E pid \in DOMAIN ui.snapshot :
        LET safety == ui.snapshot[pid]
            sel == [ui EXCEPT !.pid = pid, !.safety = safety, !.override = FALSE,
                              !.watch = NoWatch]
        IN  IF safety.tier = GREEN
            THEN /\ KillCall(pid, FALSE)
                 /\ ui' = AfterCall([sel EXCEPT !.last = "direct"], req')
            ELSE /\ ui' = [sel EXCEPT !.pc = "dialog", !.last = "open"]
                 /\ UNCHANGED killVars

\* _on_end_tree up to the kill_process_tree call, or to dlg.exec() for RED
OnEndTree ==
    /\ UiThreadFree /\ ui.pc = "idle"
    /\ \E pid \in DOMAIN ui.snapshot :
        LET safety == ui.snapshot[pid]
            sel == [ui EXCEPT !.pid = pid, !.safety = safety, !.override = FALSE,
                              !.watch = NoWatch]
        IN  IF safety.tier = RED
            THEN /\ ui' = [sel EXCEPT !.pc = "dialog", !.last = "opentree"]
                 /\ UNCHANGED killVars
            ELSE /\ TreeCall(pid)
                 /\ ui' = AfterCall([sel EXCEPT !.last = "tree"], req')

\* the operator toggles override_check, which enables or disables force_btn
ToggleOverride ==
    /\ ui.pc = "dialog" /\ ui.safety.tier = RED
    /\ ui' = [ui EXCEPT !.override = ~@]
    /\ UNCHANGED killVars

\* Cancel, Escape or closing the dialog: reject()
ClickCancel ==
    /\ ui.pc = "dialog"
    /\ ui' = [ui EXCEPT !.pc = "idle", !.last = "cancel"]
    /\ UNCHANGED killVars

\* the enabled Force Terminate button: _on_force accepts, and _on_end_task
\* goes on to call kill_process, _on_end_tree to call kill_process_tree
ClickForce ==
    /\ ui.pc = "dialog" /\ ui.safety.tier = RED /\ ui.override
    /\ IF ui.last = "opentree"
       THEN /\ TreeCall(ui.pid)
            /\ ui' = AfterCall([ui EXCEPT !.pc = "idle", !.last = "tree"], req')
       ELSE /\ KillCall(ui.pid, ForceFor(ui.safety))
            /\ ui' = AfterCall([ui EXCEPT !.pc = "idle", !.last = "force"], req')

\* the End Task button of the YELLOW dialog: accept(), and _on_end_task goes
\* on to call kill_process
ClickEndTask ==
    /\ ui.pc = "dialog" /\ ui.safety.tier # RED
    /\ KillCall(ui.pid, ForceFor(ui.safety))
    /\ ui' = AfterCall([ui EXCEPT !.pc = "idle", !.last = "accept"], req')

\* the live processes as check_respawn scans them
LiveScan ==
    LET pids == AsList(alive)
    IN  [i \in 1..Len(pids) |-> [pid |-> pids[i], name |-> ProcName[pids[i]]]]

\* RespawnCheckWorker.run finds another process of the same name and emits
\* respawned; _on_respawn_detected shows the RespawnAlertDialog, the operator
\* picks Kill and the handler calls kill_process(new_pid)
OnRespawnDetected ==
    /\ UiThreadFree /\ ui.pc = "idle" /\ ui.watch.running
    /\ LET found == check_respawn(ui.watch.name, ui.watch.pid, LiveScan)
       IN  /\ found.found
           /\ KillCall(found.pid, FALSE)
           /\ ui' = AfterCall([ui EXCEPT !.last = "respawn", !.watch = NoWatch],
                              req')

\* RespawnCheckWorker.run finds nothing and finishes without a report, or the
\* operator dismisses the RespawnAlertDialog
RespawnCheckEnds ==
    /\ UiThreadFree /\ ui.pc = "idle" /\ ui.watch.running
    /\ ui' = [ui EXCEPT !.watch.running = FALSE]
    /\ UNCHANGED killVars

UiInit == KillInit /\ UiIdle

----------------------------------------------------------------------------
(* A second instance of the program (main.py starts one per launch and has  *)
(* no single-instance check): its kill_process requests run the same code   *)
(* against the same process table while the first instance's run.           *)

\* the second instance's kill_process(pid, force), up to the gate; it has its
\* own _process_db, loaded from the same file
PeerRequest ==
    /\ peerReq.pc \in {"idle", "done"}
    /\ \E pid \in Pids, force \in BOOLEAN :
        LET r0 == [IdleReq EXCEPT !.kind = "kill", !.pid = pid, !.force = force]
        IN  IF pid \notin alive
            THEN peerReq' = Return(r0, OnNoSuchProcess)
            ELSE LET safety == classify_process(ProcName[pid], pid,
                                                LoadedDb(EmptyDb, dbFile))
                     r1 == [r0 EXCEPT !.name = ProcName[pid], !.tier = safety.tier]
                 IN  peerReq' = IF KillGate(safety, force) THEN Return(r1, FALSE)
                                ELSE [r1 EXCEPT !.pc = "signal"]
    /\ UNCHANGED <<alive, dbFile, processDb, req>>

\* its `if force: proc.kill() else: proc.terminate()`
PeerSignal ==
    /\ peerReq.pc = "signal"
    /\ LET r == Try(peerReq, IF peerReq.force THEN "kill" ELSE "terminate",
                    peerReq.pid)
       IN  peerReq' =
             IF peerReq.pid \notin alive THEN Return(r, OnNoSuchProcess)
             ELSE IF peerReq.force
             THEN Return([r EXCEPT !.sigs = Append(@, Sig("kill", peerReq.pid))], TRUE)
             ELSE [r EXCEPT !.sigs = Append(@, Sig("terminate", peerReq.pid)),
                            !.pc = "wait"]
    /\ UNCHANGED <<alive, dbFile, processDb, req>>

\* its proc.wait(timeout=3)
PeerWait ==
    /\ peerReq.pc = "wait"
    /\ peerReq' = IF peerReq.pid \notin alive THEN Return(peerReq, TRUE)
                  ELSE [peerReq EXCEPT !.pc = "escalate"]
    /\ UNCHANGED <<alive, dbFile, processDb, req>>

\* its `except psutil.TimeoutExpired: proc.kill()`
PeerEscalate ==
    /\ peerReq.pc = "escalate"
    /\ LET r == Try(peerReq, "kill", peerReq.pid)
       IN  peerReq' =
             IF peerReq.pid \notin alive THEN Return(r, OnNoSuchProcess)
             ELSE Return([r EXCEPT !.sigs = Append(@, Sig("kill", peerReq.pid))], TRUE)
    /\ UNCHANGED <<alive, dbFile, processDb, req>>

\* The second instance's SuppressionManager works on the same
\* suppressions.json and the same services, tasks and registry, with its own
\* self.entries.

\* the state the second instance's operations read and write
PeerState == [State EXCEPT !.entries = peer.entries]

\* its operation done: the shared file and backends, its own entries; last
\* keeps the file's entries as they were when the operation started
PeerDone(op, arg, r) ==
    /\ peer' = [peer EXCEPT !.entries = r.st.entries]
    /\ file' = r.st.file
    /\ svc' = r.st.svc
    /\ task' = r.st.task
    /\ ifeoKey' = r.st.ifeoKey
    /\ ifeoDbg' = r.st.ifeoDbg
    /\ run' = r.st.run
    /\ runDis' = r.st.runDis
    /\ last' = [NoOp EXCEPT !.op = op, !.ok = r.ok, !.arg = arg,
                            !.pre = peer.entries, !.preDisk = Load(file)]
    /\ UNCHANGED <<mgr, entries, disk, admin, faults>>

\* SuppressionManager() in the second instance
PeerConstruct ==
    /\ peer.mgr = "none"
    /\ peer' = [mgr |-> IF LoadRaises(file) THEN "crashed" ELSE "up",
                entries |-> Load(file)]
    /\ last' = [NoOp EXCEPT !.op = "peer_construct", !.ok = ~LoadRaises(file)]
    /\ UNCHANGED <<mgr, entries, file, svc, task, ifeoKey, ifeoDbg, run, runDis,
                   disk, admin, clock, faults>>

PeerDisableScheduledTask ==
    /\ peer.mgr = "up" /\ clock < MaxClock
    /\ clock' = clock + 1
    /\ \E t \in Tasks :
          PeerDone("peer_disable_scheduled_task", t,
                   disable_scheduled_task(PeerState, t, t, clock))

PeerEnableScheduledTask ==
    /\ peer.mgr = "up"
    /\ UNCHANGED clock
    /\ \E t \in Tasks :
          PeerDone("peer_enable_scheduled_task", t,
                   enable_scheduled_task(PeerState, t))

\* both instances start elevated on a machine without a ledger file
SharedInit ==
    /\ SuppInit
    /\ file = MissingFile
    /\ admin

----------------------------------------------------------------------------
(* Specifications *)

SuppIdle ==
    /\ mgr = "none"
    /\ entries = <<>>
    /\ file = MissingFile
    /\ svc = [s \in Services |-> "auto"]
    /\ task = [t \in Tasks |-> "enabled"]
    /\ ifeoKey = {}
    /\ ifeoDbg = {}
    /\ run = [h \in HiveSet |-> [n \in StartupNames |-> NoValue]]
    /\ runDis = [h \in HiveSet |-> [n \in StartupNames |-> NoValue]]
    /\ disk = "ok"
    /\ admin = FALSE
    /\ clock = 1
    /\ faults = 0
    /\ last = NoOp

\* the termination controller
Init == KillInit /\ SuppIdle /\ ClsIdle /\ ExtraIdle
KillFrame == UNCHANGED <<suppVars, cls, extraVars>>
Next ==
    \/ KillRequest /\ KillFrame
    \/ KillSignal /\ KillFrame
    \/ KillWait /\ KillFrame
    \/ KillEscalate /\ KillFrame
    \/ TreeRequest /\ KillFrame
    \/ TreeChild /\ KillFrame
    \/ TreeRoot /\ KillFrame
    \/ TreeWait /\ KillFrame
    \/ TreeEscalate /\ KillFrame
    \/ ProcExit /\ KillFrame
Spec == Init /\ [][Next]_vars

\* the suppression manager
SuppSpecInit == SuppInit /\ KillIdle /\ ClsIdle /\ ExtraIdle
SuppFrame == UNCHANGED <<killVars, cls, extraVars>>
SuppSpecNext ==
    \/ Construct /\ SuppFrame
    \/ DisableService /\ SuppFrame
    \/ DisableStartupEntry /\ SuppFrame
    \/ DisableScheduledTask /\ SuppFrame
    \/ BlockViaIfeo /\ SuppFrame
    \/ EnableService /\ SuppFrame
    \/ EnableScheduledTask /\ SuppFrame
    \/ UnblockIfeo /\ SuppFrame
    \/ RestoreEntry /\ SuppFrame
    \/ RestoreAll /\ SuppFrame
    \/ EnvDelete /\ SuppFrame
    \/ DiskChange /\ SuppFrame
SuppSpec == SuppSpecInit /\ [][SuppSpecNext]_vars

\* the classifier on its own
ClassifySpecInit == ClsInit /\ KillIdle /\ SuppIdle /\ ExtraIdle
ClassifySpecNext == Classify /\ UNCHANGED <<suppVars, killVars, extraVars>>
ClassifySpec == ClassifySpecInit /\ [][ClassifySpecNext]_vars

\* the process table widget driving the termination controller
UiSpecInit == UiInit /\ PeerIdle /\ CallIdle /\ PmIdle /\ SuppIdle /\ ClsIdle
UiFrame == UNCHANGED <<suppVars, cls, peerReq, peer, call, pm>>
UiSpecNext ==
    \/ Refresh /\ UiFrame
    \/ OnEndTask /\ UiFrame
    \/ ToggleOverride /\ UiFrame
    \/ ClickCancel /\ UiFrame
    \/ ClickForce /\ UiFrame
    \/ ClickEndTask /\ UiFrame
    \/ OnRespawnDetected /\ UiFrame
    \/ RespawnCheckEnds /\ UiFrame
    \/ KillSignal /\ HandlerStep /\ UiFrame
    \/ KillWait /\ HandlerStep /\ UiFrame
    \/ KillEscalate /\ HandlerStep /\ UiFrame
    \/ ProcExit /\ UNCHANGED ui /\ UiFrame
UiSpec == UiSpecInit /\ [][UiSpecNext]_vars

\* the process table widget with End Process Tree and the respawn watcher,
\* with the description database that yields all three tiers
WatchSpecInit == UiSpecInit /\ dbFile = "strict"
WatchSpecNext ==
    \/ Refresh /\ UiFrame
    \/ OnEndTask /\ UiFrame
    \/ OnEndTree /\ UiFrame
    \/ ToggleOverride /\ UiFrame
    \/ ClickCancel /\ UiFrame
    \/ ClickForce /\ UiFrame
    \/ ClickEndTask /\ UiFrame
    \/ OnRespawnDetected /\ UiFrame
    \/ RespawnCheckEnds /\ UiFrame
    \/ KillSignal /\ HandlerStep /\ UiFrame
    \/ KillWait /\ HandlerStep /\ UiFrame
    \/ KillEscalate /\ HandlerStep /\ UiFrame
    \/ TreeChild /\ HandlerStep /\ UiFrame
    \/ TreeRoot /\ HandlerStep /\ UiFrame
    \/ TreeWait /\ HandlerStep /\ UiFrame
    \/ TreeEscalate /\ HandlerStep /\ UiFrame
    \/ ProcExit /\ UNCHANGED ui /\ UiFrame
WatchSpec == WatchSpecInit /\ [][WatchSpecNext]_vars

\* two instances of the program terminating processes
OverlapSpecInit == KillIdle /\ ExtraIdle /\ SuppIdle /\ ClsIdle
OverlapFrame == UNCHANGED <<suppVars, cls, ui, peer, call, pm>>
OverlapSpecNext ==
    \/ KillRequest /\ UNCHANGED peerReq /\ OverlapFrame
    \/ KillSignal /\ UNCHANGED peerReq /\ OverlapFrame
    \/ KillWait /\ UNCHANGED peerReq /\ OverlapFrame
    \/ KillEscalate /\ UNCHANGED peerReq /\ OverlapFrame
    \/ PeerRequest /\ OverlapFrame
    \/ PeerSignal /\ OverlapFrame
    \/ PeerWait /\ OverlapFrame
    \/ PeerEscalate /\ OverlapFrame
    \/ ProcExit /\ UNCHANGED peerReq /\ OverlapFrame
OverlapSpec == OverlapSpecInit /\ [][OverlapSpecNext]_vars

\* two instances of the program working on the one ledger file
SharedSpecInit == SharedInit /\ KillIdle /\ ExtraIdle /\ ClsIdle
SharedFrame == UNCHANGED <<killVars, cls, ui, peerReq, call, pm>>
SharedSpecNext ==
    \/ Construct /\ UNCHANGED peer /\ SharedFrame
    \/ DisableService /\ UNCHANGED peer /\ SharedFrame
    \/ EnableService /\ UNCHANGED peer /\ SharedFrame
    \/ BlockViaIfeo /\ UNCHANGED peer /\ SharedFrame
    \/ UnblockIfeo /\ UNCHANGED peer /\ SharedFrame
    \/ PeerConstruct /\ SharedFrame
    \/ PeerDisableScheduledTask /\ SharedFrame
    \/ PeerEnableScheduledTask /\ SharedFrame
SharedSpec == SharedSpecInit /\ [][SharedSpecNext]_vars

\* the rate computation of collect_processes and check_respawn, each on its own
CallSpecInit == CallInit /\ UiIdle /\ PeerIdle /\ PmIdle /\ KillIdle /\ SuppIdle /\ ClsIdle
CallFrame == UNCHANGED <<suppVars, killVars, cls, ui, peerReq, peer, pm>>
CallSpecNext ==
    \/ CollectRates /\ CallFrame
    \/ CheckRespawn /\ CallFrame
CallSpec == CallSpecInit /\ [][CallSpecNext]_vars

\* the refresh worker collecting snapshots while the UI thread reads them
CollectSpecInit == PmInit /\ UiIdle /\ PeerIdle /\ CallIdle /\ KillIdle /\ SuppIdle /\ ClsIdle
CollectFrame == UNCHANGED <<suppVars, killVars, cls, ui, peerReq, peer, call>>
CollectSpecNext ==
    \/ CollectStart /\ CollectFrame
    \/ CollectRecord /\ CollectFrame
    \/ CollectFinish /\ CollectFrame
    \/ GetProcesses /\ CollectFrame
    \/ GetProcessByPid /\ CollectFrame
    \/ PmProcChange /\ CollectFrame
CollectSpec == CollectSpecInit /\ [][CollectSpecNext]_vars

----------------------------------------------------------------------------
(* Properties of the termination controller and the classifier *)

\* C1: a request without force whose target is live and classified RED when
\* the request is made returns failure and sends no terminate or kill signal
\* to any process, the target's descendants included.
C1_RedBlockedWithoutSignal ==
    (req.kind \in {"kill", "tree"} /\ req.tier = RED /\ ~req.force) =>
        /\ req.pc = "done"
        /\ req.result = FALSE
        /\ req.sigs = <<>>

\* a tree request on a RED process with live descendants was refused
C1_Witness ==
    /\ req.kind = "tree" /\ req.pc = "done" /\ req.tier = RED
    /\ req.children # <<>>
    /\ ~req.result

\* C7: a request whose target does not exist, or has exited by the time the
\* request returns (before the graceful signal, during the wait, before the
\* escalation kill), returns success.
C7_GoneTargetIsSuccess ==
    (req.pc = "done" /\ req.gone) => req.result = TRUE

\* a kill_process request sent the graceful signal and the target exited
\* before any forceful kill was sent
C7_Witness ==
    /\ req.kind = "kill" /\ req.pc = "done" /\ req.gone
    /\ req.sigs = <<Sig("terminate", req.pid)>>
    /\ req.result

\* the tier the decision order of the claim gives: pid, always-critical name,
\* caution-override name, database entry, default
ServiceCategories == {"windows_service"}
ClaimTier(name, pid, info) ==
    IF pid \in {0, 4} THEN RED
    ELSE IF Lower(name) \in _ALWAYS_CRITICAL THEN RED
    ELSE IF Lower(name) \in _CAUTION_OVERRIDES THEN YELLOW
    ELSE IF ~info.exists THEN GREEN
    ELSE IF info.safe_to_kill = "False"
         THEN (IF info.category = "system_critical" THEN RED ELSE YELLOW)
         ELSE (IF info.category \in ServiceCategories THEN YELLOW ELSE GREEN)

\* C10: classify_process decides in the order pid in {0,4}, always-critical
\* name, caution-override name, database entry, default; so the tier of a
\* name in either hardcoded set does not depend on the database entry.
C10_FirstMatchOrder ==
    cls.done => cls.out.tier = ClaimTier(cls.name, cls.pid, cls.info)

\* a caution-override name stays YELLOW although its database entry is
\* system_critical and not safe to kill
C10_Witness ==
    /\ cls.done
    /\ cls.pid \notin {0, 4}
    /\ Lower(cls.name) \in _CAUTION_OVERRIDES
    /\ cls.info.category = "system_critical" /\ cls.info.safe_to_kill = "False"
    /\ cls.out.tier = YELLOW

\* C11: for every process name (empty, unknown, caution-override and
\* always-critical names included) classify_process(name, pid) with pid 0 or
\* pid 4 returns tier RED and can_kill = false.
C11_SystemPidsAreRed ==
    (cls.done /\ cls.pid \in {0, 4}) =>
        /\ cls.out.tier = RED
        /\ cls.out.can_kill = FALSE

\* pid 4 was classified under a caution-override name whose database entry
\* says it is a safe user application
C11_Witness ==
    /\ cls.done
    /\ cls.pid = 4
    /\ Lower(cls.name) \in _CAUTION_OVERRIDES
    /\ cls.info.category = "user_app" /\ cls.info.safe_to_kill = "True"
    /\ cls.out.tier = RED /\ ~cls.out.can_kill

\* C13: every SafetyInfo classify_process returns has can_kill = false if and
\* only if its tier is RED.
C13_CanKillIffNotRed ==
    cls.done => (cls.out.can_kill = FALSE <=> cls.out.tier = RED)

\* a database entry that is system_critical and not safe to kill was
\* classified RED with can_kill = false, for a name in neither hardcoded set
C13_Witness ==
    /\ cls.done
    /\ cls.pid \notin {0, 4}
    /\ Lower(cls.name) \notin _ALWAYS_CRITICAL \cup _CAUTION_OVERRIDES
    /\ cls.info.category = "system_critical" /\ cls.info.safe_to_kill = "False"
    /\ cls.out.tier = RED /\ ~cls.out.can_kill

\* C17: kill_process returns success only when the target has exited by the
\* time it returns; a target still alive after the forceful kill yields failure.
C17_SuccessMeansExited ==
    (req.kind = "kill" /\ req.pc = "done" /\ req.result) => req.gone

\* the signals one kill_process request may have sent so far
KillSigs(r) ==
    IF r.force THEN {<<>>, <<Sig("kill", r.pid)>>}
    ELSE {<<>>, <<Sig("terminate", r.pid)>>,
          <<Sig("terminate", r.pid), Sig("kill", r.pid)>>}

\* C18: within one kill_process request the steps come in the order gate,
\* then (force=False) one graceful terminate, the wait, and a forceful kill
\* only when the wait timed out with the target alive; with force=True no
\* terminate and exactly one kill.  No request sends a second terminate or a
\* second kill, and nothing is retried.
C18_OneSignalInOrder ==
    [][ (req'.kind = "kill" /\ req' # req) =>
          /\ req'.sigs \in KillSigs(req')
          \* a request starts with no signal sent
          /\ (req.pc \in {"idle", "done"}) => req'.sigs = <<>>
          \* signalling starts only from the gate, and not for a refused request
          /\ (req'.pc = "signal") =>
                /\ req.pc \in {"idle", "done"}
                /\ ~(req'.tier = RED /\ ~req'.force)
          \* a signal is sent by the signal step or by the escalation step
          /\ (req.pc \notin {"idle", "done"} /\ req'.sigs # req.sigs) =>
                /\ req'.pid = req.pid /\ req'.force = req.force
                /\ IF req.force
                   THEN /\ req.pc = "signal" /\ req.sigs = <<>>
                        /\ req'.sigs = <<Sig("kill", req.pid)>>
                        /\ req'.pc = "done"
                   ELSE \/ /\ req.pc = "signal" /\ req.sigs = <<>>
                           /\ req'.sigs = <<Sig("terminate", req.pid)>>
                           /\ req'.pc = "wait"
                        \/ /\ req.pc = "escalate"
                           /\ req.sigs = <<Sig("terminate", req.pid)>>
                           /\ req'.sigs = Append(req.sigs, Sig("kill", req.pid))
                           /\ req'.pc = "done"
          \* the escalation is reached only from the wait, the target being alive
          /\ (req'.pc = "escalate") =>
                /\ req.pc = "wait" /\ ~req.force /\ req.pid \in alive
          \* the wait is reached only by sending the graceful signal
          /\ (req'.pc = "wait") => req.pc = "signal" ]_vars

\* a request without force sent terminate, timed out and sent one kill
C18_Witness ==
    /\ req.kind = "kill" /\ req.pc = "done" /\ ~req.force
    /\ req.sigs = <<Sig("terminate", req.pid), Sig("kill", req.pid)>>
    /\ req.result

\* the processes of a kill_process_tree request: the descendants listed at
\* request time and the root
TreeSet(r) == {r.children[i] : i \in 1..Len(r.children)} \cup {r.pid}

\* the request has called kind() on process p
Tried(r, kind, p) == \E i \in 1..Len(r.tried) : r.tried[i] = Sig(kind, p)

\* process p has received the signal: the call raised nothing
Received(r, kind, p) == \E i \in 1..Len(r.sigs) : r.sigs[i] = Sig(kind, p)

\* a kill_process_tree request that has passed the gate
TreePassed == req.kind = "tree" /\ req.tier \notin {"none", RED}

\* C21: in kill_process_tree the descendant set is fixed at request time;
\* terminate is called on every descendant of it before it is called on the
\* root; after the one collective wait every process of the set that is still
\* alive gets a forceful kill; no process outside the set is signalled.
C21_TreeOrderAndEscalation ==
    TreePassed =>
        \* nothing outside the set is signalled
        /\ \A i \in 1..Len(req.tried) : req.tried[i].pid \in TreeSet(req)
        \* descendants before the root
        /\ \A i \in 1..Len(req.tried) :
              req.tried[i] = Sig("terminate", req.pid) =>
                 \A j \in 1..Len(req.children) :
                    \E k \in 1..(i - 1) :
                       req.tried[k] = Sig("terminate", req.children[j])
        \* a request that returns success has called kill on every member
        \* still alive
        /\ (req.pc = "done" /\ req.result) =>
              \A p \in TreeSet(req) : p \in alive => Tried(req, "kill", p)

\* C22: an access-denied or no-such-process failure when signalling one
\* descendant, gracefully or forcefully, does not stop kill_process_tree:
\* terminate is still called on every other descendant and on the root, kill
\* on every survivor of the wait, and the result is success all the same.
C22_DescendantFailureSwallowed ==
    TreePassed =>
        /\ req.pc # "children" =>
              \A j \in 1..Len(req.children) :
                 Tried(req, "terminate", req.children[j])
        /\ req.pc \notin {"children", "root"} => Tried(req, "terminate", req.pid)
        /\ (req.pc = "done" /\ Received(req, "terminate", req.pid)) =>
              /\ req.result
              /\ \A p \in TreeSet(req) : p \in alive => Tried(req, "kill", p)

\* terminate and kill were both refused for one descendant that is still
\* alive; a descendant after it and the root received terminate, and the
\* request returned success
C22_Witness ==
    /\ TreePassed /\ req.pc = "done" /\ req.result
    /\ Received(req, "terminate", req.pid)
    /\ \E i, j \in 1..Len(req.children) :
          /\ i < j
          /\ req.children[i] \in alive
          /\ Tried(req, "terminate", req.children[i])
          /\ ~Received(req, "terminate", req.children[i])
          /\ Tried(req, "kill", req.children[i])
          /\ ~Received(req, "kill", req.children[i])
          /\ Received(req, "terminate", req.children[j])

\* C23: when the graceful terminate of kill_process is refused with access
\* denied, the request returns failure having made that one call only: no
\* forceful kill, no second attempt.  Without force, kill is called only
\* after terminate was received and the wait timed out.
C23_DeniedTerminateFails ==
    (req.kind = "kill" /\ ~req.force) =>
        /\ (Tried(req, "terminate", req.pid)
              /\ ~Received(req, "terminate", req.pid)) =>
              /\ req.pc = "done"
              /\ req.tried = <<Sig("terminate", req.pid)>>
              /\ ~req.gone => ~req.result
        /\ Tried(req, "kill", req.pid) =>
              /\ Len(req.tried) = 2
              /\ req.tried[1] = Sig("terminate", req.pid)
              /\ req.sigs # <<>> /\ req.sigs[1] = Sig("terminate", req.pid)

\* terminate was refused for a live process that is not RED: failure, one call
C23_Witness ==
    /\ req.kind = "kill" /\ ~req.force /\ req.pc = "done"
    /\ req.tier \in {GREEN, YELLOW}
    /\ req.tried = <<Sig("terminate", req.pid)>> /\ req.sigs = <<>>
    /\ ~req.gone /\ ~req.result /\ req.pid \in alive

----------------------------------------------------------------------------
(* Properties of the process table widget *)

\* the step issues a termination request
Issued == req.pc \in {"idle", "done"} /\ req'.kind = "kill" /\ req' # req

\* C12: two classify_process calls with the same (name, pid), separated by
\* any operations of the program, return the same SafetyInfo: no step changes
\* what a classification returns, the step that loads the database lazily
\* included, and the tier kill_process computes for a process is the tier
\* the snapshot holds for it.
C12_ClassifyIsPure ==
    [][ LET before == LoadedDb(processDb, dbFile)
            after == LoadedDb(processDb', dbFile')
        IN  /\ after = before
            /\ (processDb' # processDb \/ dbFile' # dbFile) =>
                  \A n \in Names, p \in Pids \cup ClsPids :
                      classify_process(n, p, after) = classify_process(n, p, before)
            /\ (req'.kind = "kill" /\ req'.tier # "none"
                   /\ req'.pid \in DOMAIN ui'.snapshot) =>
                  req'.tier = ui'.snapshot[req'.pid].tier ]_vars

\* Worker.exe was classified RED from its database entry for the snapshot,
\* which loaded the database, and RED again by a later kill_process
C12_Witness ==
    /\ req.kind = "kill" /\ req.name = "Worker.exe" /\ req.tier = RED
    /\ req.pid \in DOMAIN ui.snapshot
    /\ ui.snapshot[req.pid].tier = RED
    /\ processDb = DbContent("strict")

\* C14: the widget passes force=True to kill_process only for a selected
\* process of tier RED whose dialog was accepted through the override
\* checkbox and the Force Terminate button; for GREEN and YELLOW processes
\* force is not passed; cancelling the dialog issues no request.
C14_ForceOnlyByOverride ==
    [][ /\ (Issued /\ req'.force) =>
              /\ ui.pc = "dialog" /\ ui.pid = req'.pid
              /\ ui.safety.tier = RED
              /\ ui.override
              /\ ui'.last = "force"
        /\ (Issued /\ ui'.last \in {"direct", "accept"}
               /\ ui'.safety.tier \in {GREEN, YELLOW}) => ~req'.force
        /\ (ui.pc = "dialog" /\ ui'.pc = "idle" /\ ui'.last = "cancel") =>
              req' = req ]_vars

\* a RED process was force-killed after the override was ticked
C14_Witness ==
    /\ ui.last = "force" /\ ui.safety.tier = RED /\ ui.override
    /\ req.kind = "kill" /\ req.pid = ui.pid /\ req.force
    /\ req.sigs = <<Sig("kill", req.pid)>>

\* request r has sent its graceful signal and is waiting for the exit, or
\* has timed out and is about to kill
AwaitingOrEscalated(r) == r.kind = "kill" /\ r.pc \in {"wait", "escalate"}

\* C19: while one termination request for a pid is waiting for the exit or
\* has escalated, an overlapping second request for the same pid is a no-op:
\* it sends the process no terminate and no kill.
C19_SecondRequestIsNoOp ==
    [][ /\ (AwaitingOrEscalated(req) /\ peerReq.pid = req.pid
               /\ peerReq.kind = "kill" /\ peerReq.pc \notin {"idle", "done"}) =>
              peerReq'.sigs = peerReq.sigs
        /\ (AwaitingOrEscalated(peerReq) /\ req.pid = peerReq.pid
               /\ req.kind = "kill" /\ req.pc \notin {"idle", "done"}) =>
              req'.sigs = req.sigs ]_vars

\* a handler has made its termination call and the call has returned
HandlerDone ==
    /\ req.pc = "done" /\ req.kind \in {"kill", "tree"}
    /\ ui.pc = "idle" /\ ui.last \in {"direct", "accept", "force", "tree", "respawn"}

\* C24: a respawn watcher is started if and only if a termination request
\* returned success: every request issued by End Task, End Process Tree or
\* the Kill of the respawn alert that returns success has started one watcher,
\* for its target, and one that was blocked or failed has started none.
C24_WatcherIffSuccess ==
    HandlerDone =>
        /\ req.result <=> ui.watch # NoWatch
        /\ ui.watch # NoWatch => ui.watch.pid = req.pid

----------------------------------------------------------------------------
(* Properties of the rate computation and of the respawn scan *)

\* rate q equals max(0, diff / dt), for dt > 0
IsClampedQuotient(q, diff, dt) ==
    /\ q.den > 0
    /\ IF diff > 0 THEN q.num * dt = diff * q.den ELSE q.num = 0

\* C15: for a pid with a previous counter sample and dt = now - prev_time > 0
\* each disk rate equals max(0, (counter_now - counter_prev) / dt); with no
\* previous sample, or dt <= 0, the rate is 0; a rate is never negative, also
\* when the counter decreased.
C15_DiskRates ==
    (call.fn = "disk_rates" /\ call.done) =>
        LET dt == call.now - call.prev.time
            rd == call.out.disk_read_speed
            wr == call.out.disk_write_speed
        IN  /\ (call.io.exists /\ call.prev.exists /\ dt > 0) =>
                  /\ IsClampedQuotient(rd, call.io.read_bytes - call.prev.read_bytes, dt)
                  /\ IsClampedQuotient(wr, call.io.write_bytes - call.prev.write_bytes, dt)
            /\ (~call.prev.exists \/ dt <= 0) => (rd.num = 0 /\ wr.num = 0)
            /\ rd.den > 0 /\ rd.num >= 0
            /\ wr.den > 0 /\ wr.num >= 0

\* the read counter decreased (rate 0) while the write counter grew by 50 in
\* 5 seconds (rate 10 per second)
C15_Witness ==
    /\ call.fn = "disk_rates" /\ call.done
    /\ call.prev = Sample(150, 200, 0)
    /\ call.io = IoCounters(100, 250)
    /\ call.now = 5
    /\ call.out.disk_read_speed.num = 0
    /\ call.out.disk_write_speed.num = 10 * call.out.disk_write_speed.den

\* positions of the scan whose process has the terminated name, compared
\* case-insensitively, and another pid
RespawnPositions(c) ==
    {i \in 1..Len(c.scan) :
        /\ c.scan[i].name # NoName
        /\ Lower(c.scan[i].name) = Lower(c.name)
        /\ c.scan[i].pid # c.original_pid}

\* C16: check_respawn returns the pid of the first scanned process whose name
\* equals the terminated name case-insensitively and whose pid differs from
\* the terminated pid; without such a process in its one scan it returns
\* None; it never returns the terminated pid.
C16_FirstRespawnOrNone ==
    (call.fn = "check_respawn" /\ call.done) =>
        LET pos == RespawnPositions(call)
        IN  /\ (pos = {}) => ~call.out.found
            /\ (pos # {}) =>
                  /\ call.out.found
                  /\ \E i \in pos : /\ \A j \in pos : i <= j
                                     /\ call.out.pid = call.scan[i].pid
            /\ call.out.found => call.out.pid # call.original_pid

\* the scan holds the terminated pid itself, then a nameless process, then
\* two respawned workers under another spelling; the first of the two is
\* returned
C16_Witness ==
    /\ call.fn = "check_respawn" /\ call.done
    /\ call.name = "Worker.exe" /\ call.original_pid = 20
    /\ Len(call.scan) = 4
    /\ call.scan[1] = [pid |-> 20, name |-> "Worker.exe"]
    /\ call.scan[2].name = NoName
    /\ call.scan[3].name = "worker.exe" /\ call.scan[4].name = "worker.exe"
    /\ call.out = Found(call.scan[3].pid)

----------------------------------------------------------------------------
(* Properties of the snapshot cycle *)

\* C25: a reader calling get_processes or get_process_by_pid while
\* collect_processes runs on another thread gets the complete previous
\* snapshot or the complete next one, never part of the new cycle's records:
\* what _processes refers to is always the snapshot the last finished
\* collection returned, every read returns that snapshot (or its record for
\* the pid), and the dictionary get_processes returned keeps its content
\* through later collections.
C25_ReadersSeeWholeSnapshots ==
    /\ pm.heap[pm.processes] = pm.returned
    /\ pm.reader.got = pm.reader.expect
    /\ pm.reader.ref # NoDict => pm.heap[pm.reader.ref] = pm.reader.got

\* get_processes was called while a collection had stored some of its
\* records; it returned the previous snapshot, and a collection that has
\* finished since, with another result, left the returned dictionary alone
C25_Witness ==
    /\ pm.reader.ref # NoDict /\ pm.reader.during
    /\ pm.reader.got # EmptyDict
    /\ pm.pc = "idle" /\ pm.returned # pm.reader.got
    /\ pm.heap[pm.reader.ref] = pm.reader.got

\* the pids _prev_io holds a sample for
Tracked == {p \in PmPids : pm.prev_io[p].exists}

\* C26: after every collect_processes call the pids held in _prev_io are a
\* subset of the pids of the snapshot that call returned; a pid absent from
\* a cycle has no sample left, so a process that appears under it in a later
\* cycle gets rate 0.
C26_PrevIoWithinSnapshot ==
    /\ pm.pc = "idle" => Tracked \subseteq DOMAIN pm.returned
    /\ pm.pc = "scan" =>
          \A p \in DOMAIN pm.heap[pm.new] :
             p \notin DOMAIN pm.returned =>
                pm.heap[pm.new][p].disk_read_speed = ZeroRate

\* a pid whose sample an earlier cleanup deleted is in use again: the new
\* cycle has its I/O counters and gives it rate 0
C26_Witness ==
    /\ pm.pc = "scan"
    /\ \E p \in pm.dropped :
          /\ p \in DOMAIN pm.heap[pm.new]
          /\ p \notin DOMAIN pm.returned
          /\ pm.prev_io[p].exists /\ pm.prev_io[p].time = pm.now
          /\ pm.heap[pm.new][p].disk_read_speed = ZeroRate

----------------------------------------------------------------------------
(* Properties of the suppression ledger *)

ApplyOps == {"disable_service", "disable_startup_entry",
             "disable_scheduled_task", "block_via_ifeo"}
RestoreOps == {"restore_entry", "enable_service", "enable_scheduled_task",
               "unblock_ifeo"}

\* positions of the active entries of es with method m and detail d
ActiveAt(es, m, d) ==
    {i \in 1..Len(es) : es[i].active /\ es[i].method = m /\ es[i].detail = d}

\* the active entries of es, newest (last appended) first
RECURSIVE ActiveNewestFirst(_)
ActiveNewestFirst(es) ==
    IF Len(es) = 0 THEN <<>>
    ELSE LET e == es[Len(es)]
             rest == ActiveNewestFirst(SubSeq(es, 1, Len(es) - 1))
         IN  IF e.active THEN <<e>> \o rest ELSE rest

\* the backend action of the apply operation that made the new last entry e
\* is in effect
BackendApplied(e) ==
    CASE e.method = "service" -> svc'[e.detail] = "disabled"
      [] e.method = "task" -> task'[e.detail] = "disabled"
      [] e.method = "ifeo" -> e.detail \in ifeoDbg'
      [] e.method = "startup" ->
            \E h \in HiveSet, n \in StartupNames :
                run[h][n] # NoValue /\ run'[h][n] = NoValue
      [] OTHER -> FALSE

\* C2: an apply operation appends an entry only after its backend action has
\* succeeded, and an apply operation that returns failure leaves the
\* in-memory ledger and the persisted file exactly as they were before the
\* call, also when the backend action succeeded and persisting failed.
C2_FailedApplyChangesNothing ==
    [][last'.op \in ApplyOps =>
          /\ (entries' # entries =>
                /\ Len(entries') > Len(entries)
                /\ BackendApplied(entries'[Len(entries')]))
          /\ (~last'.ok => entries' = entries /\ file' = file)]_vars

\* C3: a second disable_service for a service that the first call disabled
\* reports success like the first, and the ledger then holds exactly one
\* active entry with method "service" and that service name as detail.
C3_DisableServiceTwiceOneEntry ==
    [][(/\ last.op = "disable_service" /\ last.ok
        /\ last'.op = "disable_service" /\ last'.arg = last.arg
        /\ clock' = clock + 1
        /\ svc[last.arg] = "disabled")
       => /\ last'.ok
          /\ Cardinality(ActiveAt(entries', "service", last'.arg)) = 1]_vars

\* C4: restore_all returns normally with one result per entry that was
\* active when it was called, attempted in newest-first order, whatever the
\* individual restores returned.
C4_RestoreAllAttemptsEveryActive ==
    [][last'.op = "restore_all" =>
          /\ ~last'.raised
          /\ [i \in 1..Len(last'.results) |-> last'.results[i].entry]
                = ActiveNewestFirst(entries)]_vars

\* the entry a restore operation is asked to restore is gone from es
RestoredGone(es) ==
    CASE last'.op = "restore_entry" ->
            \A i \in 1..Len(es) : es[i] # entries[last'.index + 1]
      [] last'.op = "enable_service" -> ActiveAt(es, "service", last'.arg) = {}
      [] last'.op = "enable_scheduled_task" -> ActiveAt(es, "task", last'.arg) = {}
      [] OTHER -> ActiveAt(es, "ifeo", last'.arg) = {}

\* C5: a restore operation that returns failure leaves the ledger and the
\* persisted file unchanged, and one that returns success leaves the ledger
\* without the restored entry.
C5_RestoreRemovesOnlyOnSuccess ==
    [][last'.op \in RestoreOps =>
          /\ (~last'.ok => entries' = entries /\ file' = file)
          /\ (last'.ok => RestoredGone(entries'))]_vars

\* C6: disable_scheduled_task(X) followed by restore_entry on the entry it
\* created (both succeeding) leaves task X enabled and the ledger, in memory
\* and as read back from disk, equal to what it was before the disable.
C6_TaskRoundTrip ==
    [][(/\ last.op = "disable_scheduled_task" /\ last.ok
        /\ last'.op = "restore_entry" /\ last'.ok
        /\ last'.index = Len(entries) - 1)
       => /\ task'[last.arg] = "enabled"
          /\ entries' = last.pre
          /\ ~LoadRaises(file') /\ Load(file') = last.preDisk]_vars

\* C27: disable_startup_entry(name) followed by a successful restore_entry
\* of the entry it created leaves the autostart registration as it was
\* before: the same value under the same name in the same hive, and nothing
\* under any other hive or name that was not there.
C27_StartupRoundTrip ==
    [][(/\ last.op = "disable_startup_entry" /\ last.ok
        /\ last'.op = "restore_entry" /\ last'.ok
        /\ last'.index = Len(entries) - 1)
       => run' = last.preRun]_vars

\* the object entry e suppressed no longer exists: the service or the task
\* was deleted, the IFEO key or its Debugger value was removed
ObjectGone(e) ==
    CASE e.method = "service" -> svc[e.detail] = "absent"
      [] e.method = "task" -> task[e.detail] = "absent"
      [] e.method = "ifeo" -> e.detail \notin ifeoKey \/ e.detail \notin ifeoDbg
      [] OTHER -> FALSE

\* C28: restore_entry on an entry whose underlying object no longer exists
\* reports failure and creates or changes no backend state.
C28_RestoreOfGoneObjectFails ==
    [][(/\ last'.op = "restore_entry"
        /\ last'.index >= 0 /\ last'.index < Len(entries)
        /\ ObjectGone(entries[last'.index + 1]))
       => /\ ~last'.ok
          /\ UNCHANGED <<svc, task, ifeoKey, ifeoDbg, run, runDis>>]_vars

\* C29: for every ledger the apply operations can produce, entries with the
\* same method and detail included, restore_all returns without raising and
\* without reading past the end of the ledger, and every active entry still
\* in the ledger on return has a failure in the returned list.
C29_RestoreAllReturns ==
    last.op = "restore_all" =>
        /\ ~last.raised
        /\ \A i \in 1..Len(entries) :
              entries[i].active =>
                 \E k \in 1..Len(last.results) :
                    /\ last.results[k].entry = entries[i]
                    /\ ~last.results[k].ok

\* C30: a successful restore_entry(i) removes exactly the entry at index i:
\* the ledger afterwards is the previous one with that entry deleted, the
\* others unchanged and in order; with an index outside the ledger it
\* returns failure and changes nothing.
C30_RestoreRemovesExactlyOne ==
    [][(last'.op = "restore_entry" /\ last' # last) =>
          IF last'.index < 0 \/ last'.index >= Len(entries)
          THEN /\ ~last'.ok
               /\ UNCHANGED <<entries, file, svc, task, ifeoKey, ifeoDbg, run, runDis>>
          ELSE last'.ok => entries' = PopAt(entries, last'.index)]_vars

\* C8: whatever the persisted file holds, constructing SuppressionManager
\* does not raise, and a file that cannot be read as a ledger gives an empty
\* ledger.
C8_ConstructNeverRaises ==
    /\ mgr # "crashed"
    /\ (last.op = "construct" /\ (file.kind # "json" \/ LoadRaises(file))
            => entries = <<>>)

\* C9: after every completed apply or restore operation the persisted file
\* holds the in-memory ledger: a new SuppressionManager loading it gets the
\* same entries in the same order, equal in all six fields.
C9_FileMirrorsLedger ==
    (last.op \in ApplyOps \cup RestoreOps \cup {"restore_all"}) =>
        /\ ~LoadRaises(file)
        /\ Load(file) = entries

\* list a is the beginning of list b
IsPrefix(a, b) == Len(a) <= Len(b) /\ SubSeq(b, 1, Len(a)) = a

\* C20: apply and restore operations that run concurrently are serialised,
\* each with exclusive access for its whole read-modify-persist step: the
\* persisted file after a successful apply is the file as it was before the
\* apply plus the new entry (no entry appended by another operation is
\* lost), and after a successful restore it holds no entry that was not
\* there before (no removed entry reappears).
C20_OperationsAreSerialised ==
    /\ (last.op = "peer_disable_scheduled_task" /\ last.ok) =>
          /\ Len(Load(file)) = Len(last.preDisk) + 1
          /\ IsPrefix(last.preDisk, Load(file))
    /\ (last.op = "peer_enable_scheduled_task" /\ last.ok) =>
          \A i \in 1..Len(Load(file)) :
              \E j \in 1..Len(last.preDisk) : Load(file)[i] = last.preDisk[j]


====
